---- MODULE Spec2Model ----
(***************************************************************************)
(* Model of the example-acquisition and feature-construction pipeline of   *)
(* run_classifier.py: the cached-split example source (SemevalProcessor),  *)
(* the pool-based paired-line reader (SemevalProcessor2), the streaming    *)
(* XML source (SemevalOfficialProcessor), the n-gram permutation           *)
(* (permutation), the sequence-pair truncation (_truncate_seq_pair), the   *)
(* feature assembly (construct_features) and the pool-based conversion     *)
(* (convert_examples_to_features).                                         *)
(*                                                                         *)
(* Encoding of Python values:                                              *)
(*   None / a value x      <<>> / <<x>>                                    *)
(*   a str                 the sequence of its ASCII character codes       *)
(*   a token               a word, i.e. a non-empty sequence of character  *)
(*                         codes; "[CLS]" and "[SEP]" are CLS and SEP      *)
(*   a list                a sequence                                      *)
(*   a raised exception    a status field naming the exception class       *)
(***************************************************************************)
EXTENDS Integers, Sequences, FiniteSets, TLC

(***************************************************************************)
(* Bounds of the model.                                                    *)
(***************************************************************************)
\* longest tokenized text, in tokens
MaxTokens == 5
\* largest max_seq_length tried
MaxSeqLen == 6
\* largest n-gram width tried for --permute_ngrams
MaxWidth == 2
\* number of states of the modelled random generator
RngMod == 4
\* iterations of the chunking loop of permutation that are followed
MaxIter == 5
\* longest data or label file of the cached-split source, in lines
MaxLines == 5
\* number of get_train_examples / get_dev_examples calls followed
MaxCalls == 3
\* longest text of an example, in words
MaxWords == 3
\* longest example list handed to convert_examples_to_features
MaxExamples == 3
\* processes of the pool (multiprocessing.cpu_count() on the machine)
NumWorkers == 2
\* examples per task of the pool; the code passes chunksize=100, scaled down
\* here so that an example list within MaxExamples spans several tasks
ChunkSize == 2
\* most articles in the corpus of the streaming-XML source
MaxArticles == 3
\* most entries in the directory of the streaming-XML source
MaxFiles == 2

(***************************************************************************)
(* Python helpers.                                                         *)
(***************************************************************************)
None == <<>>
Some(x) == <<x>>

\* ASCII codes: ' ', '-', a line feed, '0', and the letter before 'a'
SPACE == 32
DASH == 45
LF == 10
ZERO == 48
LETTER == 96

Min(x, y) == IF x < y THEN x ELSE y
Max(x, y) == IF x > y THEN x ELSE y

\* s[lo:hi] of Python: negative indices count from the end, both are clamped
PyIndex(n, k) == IF k < 0 THEN Max(n + k, 0) ELSE Min(k, n)
PySlice(s, lo, hi) ==
    LET l == PyIndex(Len(s), lo)
        h == PyIndex(Len(s), hi)
    IN  IF l < h THEN SubSeq(s, l + 1, h) ELSE <<>>

\* s[:-1], what list.pop() leaves behind on a non-empty list
Front(s) == SubSeq(s, 1, Len(s) - 1)

IsPrefix(p, s) == Len(p) <= Len(s) /\ SubSeq(s, 1, Len(p)) = p

RECURSIVE Concat(_)
\* reduce(lambda a,b: a + b, ngrams, [])
Concat(ss) == IF ss = <<>> THEN <<>> ELSE Head(ss) \o Concat(Tail(ss))

RECURSIVE SplitSep(_, _)
\* str.split(sep): the pieces between separators, empty pieces kept
SplitSep(s, sep) ==
    IF \A k \in 1..Len(s) : s[k] # sep
    THEN <<s>>
    ELSE LET k == CHOOSE j \in 1..Len(s) :
                     s[j] = sep /\ \A m \in 1..(j - 1) : s[m] # sep
         IN  <<SubSeq(s, 1, k - 1)>> \o SplitSep(SubSeq(s, k + 1, Len(s)), sep)

\* str.strip(): leading and trailing whitespace removed
IsWs(c) == c \in {SPACE, LF}
RECURSIVE LStrip(_)
LStrip(s) == IF s # <<>> /\ IsWs(Head(s)) THEN LStrip(Tail(s)) ELSE s
RECURSIVE RStrip(_)
RStrip(s) == IF s # <<>> /\ IsWs(s[Len(s)]) THEN RStrip(Front(s)) ELSE s
Strip(s) == RStrip(LStrip(s))

RECURSIVE Str(_)
\* str(n) for n >= 0: the decimal digits
Str(n) == IF n < 10 THEN <<ZERO + n>> ELSE Str(n \div 10) \o <<ZERO + (n % 10)>>

\* the text "a b c ..." of n one-letter words separated by single blanks
RECURSIVE TextOf(_)
TextOf(n) == IF n = 0 THEN <<>>
             ELSE IF n = 1 THEN <<LETTER + 1>>
             ELSE TextOf(n - 1) \o <<SPACE, LETTER + n>>

\* the token list ["a", "b", ...] of n tokens
TokensOf(n) == [k \in 1..n |-> <<LETTER + k>>]

TokenLists == {TokensOf(n) : n \in 0..MaxTokens}

VARIABLES
    \* _truncate_seq_pair: its arguments (the lists are modified in place),
    \* where the call is, and what it has done so far (the lists it was
    \* called with, the number of removals, and the last pass: the lists
    \* before it and the list it removed from)
    tokens_a, tokens_b, max_length, trunc_pc, orig_a, orig_b, pops, last_iter,
    \* permutation: its locals, the state of the `random` module's generator
    \* in the calling process, and what it returns
    tokens, ngrams, i, num_tokens, rng, perm_pc, perm_ret,
    \* the arguments of convert_examples_to_features / construct_features and
    \* the state random.seed(args.seed) leaves the generator in
    examples, label_list, max_seq_length, predict, permute_ngrams, seed,
    \* one call of construct_features: where it is and what it returned
    asm_pc, asm_ret,
    \* SemevalProcessor: the two files, self.examples, the number of runs of
    \* _create_examples, and the calls made so far
    data_file, label_file, self_examples, loads, last_call, split_ret,
    train_seen, dev_seen, ncalls,
    \* convert_examples_to_features: the pool's task queue, its worker
    \* processes, the results the imap iterator holds, the index of the task
    \* it yields next, the local `features`, where the call is and the
    \* exception it raised
    taskq, worker, results, next_index, features, conv_pc, conv_exc,
    \* whether some task's result has arrived before an earlier task's
    overtaken,
    \* SemevalProcessor2._create_examples on the files data_file and
    \* label_file: its set_type, the pool's task queue and worker processes,
    \* the results the imap iterator holds, the index of the task it yields
    \* next, the local `examples`, where the call is, and whether some
    \* task's result has arrived before an earlier task's
    set_type, rd_taskq, rd_worker, rd_results, rd_next, rd_examples, rd_pc,
    rd_overtaken,
    \* SemevalOfficialProcessor.get_dev_examples: whether data_dir exists,
    \* what os.listdir gives for it, the articles of the .xml file opened,
    \* the article elements of the tree iterparse builds from the
    \* preprocessed file, the generator of _do_xml_parse (whether it has
    \* started, the number of the element it yielded last), the locals
    \* article_id, article_text and `examples` of _create_examples, where the
    \* call is, what it returned and the exception it raised
    dir_exists, listing, corpus, elems, gen_started, gen_cur,
    article_id, article_text, x_examples, xml_pc, xml_ret, xml_exc,
    \* how often each element was yielded, the elements the loop body is
    \* through with, and whether the body ever met a cleared element
    yields, consumed, read_cleared

truncVars == <<tokens_a, tokens_b, max_length, trunc_pc, orig_a, orig_b, pops, last_iter>>
permVars == <<tokens, ngrams, i, num_tokens, rng, perm_pc, perm_ret>>
cfgVars == <<examples, label_list, max_seq_length, predict, permute_ngrams, seed>>
asmVars == <<asm_pc, asm_ret>>
splitVars == <<data_file, label_file, self_examples, loads, last_call, split_ret,
               train_seen, dev_seen, ncalls>>

convVars == <<taskq, worker, results, next_index, features, conv_pc, conv_exc,
              overtaken>>

readVars == <<set_type, rd_taskq, rd_worker, rd_results, rd_next, rd_examples,
              rd_pc, rd_overtaken>>

xmlVars == <<dir_exists, listing, corpus, elems, gen_started, gen_cur,
             article_id, article_text, x_examples, xml_pc, xml_ret, xml_exc,
             yields, consumed, read_cleared>>

vars == <<truncVars, permVars, cfgVars, asmVars, splitVars, convVars, readVars,
          xmlVars>>

(***************************************************************************)
(* _truncate_seq_pair                                                      *)
(***************************************************************************)
\* the comparison that says which list loses its last token
\* the comparison with >= for >: a tie would remove from A
PopsA_TieToA(a, b) == Len(a) >= Len(b)

PopsA(a, b) == Len(a) > Len(b)

\* the pass with < for <= in the exit test: one removal too many
TruncIter_Strict(a, b, max_len) ==
    IF Len(a) + Len(b) < max_len
    THEN [st |-> "break", a |-> a, b |-> b]
    ELSE IF PopsA(a, b)
    THEN [st |-> "pop_a", a |-> Front(a), b |-> b]
    ELSE IF b = <<>>
    THEN [st |-> "IndexError", a |-> a, b |-> b]
    ELSE [st |-> "pop_b", a |-> a, b |-> Front(b)]

\* one pass through the body of `while True`
TruncIter(a, b, max_len) ==
    IF Len(a) + Len(b) <= max_len
    THEN [st |-> "break", a |-> a, b |-> b]
    ELSE IF PopsA(a, b)
    THEN [st |-> "pop_a", a |-> Front(a), b |-> b]
    ELSE IF b = <<>>
    \* list.pop() on an empty list
    THEN [st |-> "IndexError", a |-> a, b |-> b]
    ELSE [st |-> "pop_b", a |-> a, b |-> Front(b)]

RECURSIVE _truncate_seq_pair(_, _, _)
\* after one pass with outcome r: leave the loop, or go round again
TruncLoop(r, max_len) ==
    IF r.st \in {"break", "IndexError"}
    THEN r
    ELSE _truncate_seq_pair(r.a, r.b, max_len)

\* the whole call: the lists it leaves, or the exception it raises
_truncate_seq_pair(a, b, max_len) == TruncLoop(TruncIter(a, b, max_len), max_len)

NoIter == [a |-> <<>>, b |-> <<>>, popped |-> "none"]

TruncIdle ==
    /\ tokens_a = <<>> /\ tokens_b = <<>> /\ max_length = 0
    /\ trunc_pc = "idle" /\ orig_a = <<>> /\ orig_b = <<>>
    /\ pops = 0 /\ last_iter = NoIter

TruncInit ==
    /\ tokens_a \in TokenLists
    /\ tokens_b \in TokenLists
    /\ max_length \in (0 - 2)..MaxSeqLen
    /\ trunc_pc = "loop"
    /\ orig_a = tokens_a /\ orig_b = tokens_b
    /\ pops = 0 /\ last_iter = NoIter

\* the state after a pass with outcome r
TruncTo(r) ==
    /\ tokens_a' = r.a
    /\ tokens_b' = r.b
    /\ trunc_pc' = CASE r.st = "break" -> "done"
                     [] r.st = "IndexError" -> "IndexError"
                     [] OTHER -> "loop"
    /\ pops' = IF r.st \in {"pop_a", "pop_b"} THEN pops + 1 ELSE pops
    /\ last_iter' = IF r.st = "break" THEN last_iter
                    ELSE [a |-> tokens_a, b |-> tokens_b,
                          popped |-> CASE r.st = "pop_a" -> "a"
                                       [] r.st = "pop_b" -> "b"
                                       [] OTHER -> "IndexError"]

TruncStep ==
    /\ trunc_pc = "loop"
    /\ TruncTo(TruncIter(tokens_a, tokens_b, max_length))
    /\ UNCHANGED <<max_length, orig_a, orig_b>>
    /\ UNCHANGED <<permVars, cfgVars, asmVars, splitVars, convVars, readVars, xmlVars>>


(***************************************************************************)
(* The `random` module.  The generator is deterministic: what it draws and *)
(* the state it moves to are functions of its state.  random.seed(n) puts  *)
(* it in state n.                                                          *)
(***************************************************************************)
RngStates == 0..(RngMod - 1)

RngNext(s) == (s + 1) % RngMod

\* _randbelow(n) in state s
RandBelow(s, n) == s % n

Swap(x, j, k) == [x EXCEPT ![j] = x[k], ![k] = x[j]]

RECURSIVE ShuffleFrom(_, _, _)
\* for i in reversed(range(1, len(x))): j = randbelow(i+1); x[i], x[j] = x[j], x[i]
\* (k is the 0-based i of the loop)
ShuffleFrom(x, k, s) ==
    IF k < 1
    THEN [x |-> x, rng |-> s]
    ELSE ShuffleFrom(Swap(x, k + 1, RandBelow(s, k + 1) + 1), k - 1, RngNext(s))

\* random.shuffle(x)
Shuffle(x, s) == ShuffleFrom(x, Len(x) - 1, s)

(***************************************************************************)
(* permutation                                                             *)
(***************************************************************************)
\* the slice one token short
NGram_Short(toks, k, w) == PySlice(toks, k, k + w - 1)

\* tokens[i:i+permute_ngrams]
NGram(toks, k, w) == PySlice(toks, k, k + w)

RECURSIVE NGramsFrom(_, _, _)
\* the list the while loop builds, from index k on (for w >= 1)
NGramsFrom(toks, k, w) ==
    IF k < Len(toks)
    THEN <<NGram(toks, k, w)>> \o NGramsFrom(toks, k + w, w)
    ELSE <<>>

\* reduce(lambda a,b: a + b, ngrams, []) on the shuffled list
Reduced(sh) == [st |-> "ok", tokens |-> Concat(sh.x), rng |-> sh.rng]

\* the whole call in a process whose generator is in state s: the list it
\* returns and the state it leaves the generator in.  With a width <= 0 and
\* a non-empty list, i never grows past 0 and `i < num_tokens` stays true:
\* the call does not return.
permutation(toks, w, s) ==
    IF w = None
    THEN [st |-> "ok", tokens |-> toks, rng |-> s]
    ELSE IF w[1] <= 0 /\ Len(toks) > 0
    THEN [st |-> "diverges", tokens |-> <<>>, rng |-> s]
    ELSE Reduced(Shuffle(NGramsFrom(toks, 0, w[1]), s))

Widths == {None} \cup {Some(w) : w \in (0 - 1)..MaxWidth}

PermIdle ==
    /\ tokens = <<>> /\ ngrams = <<>> /\ i = 0
    /\ num_tokens = 0 /\ rng = 0 /\ perm_pc = "idle" /\ perm_ret = None

PermInit ==
    /\ tokens \in TokenLists
    /\ permute_ngrams \in Widths
    /\ rng \in RngStates
    /\ ngrams = <<>> /\ i = 0 /\ num_tokens = 0
    /\ perm_pc = "start" /\ perm_ret = None

\* if permute_ngrams is None: return tokens
PermNone ==
    /\ perm_pc = "start"
    /\ permute_ngrams = None
    /\ perm_ret' = Some(tokens)
    /\ perm_pc' = "returned"
    /\ UNCHANGED <<tokens, ngrams, i, num_tokens, rng>>
    /\ UNCHANGED <<truncVars, cfgVars, asmVars, splitVars, convVars, readVars, xmlVars>>

\* ngrams = []; i = 0; num_tokens = len(tokens)
PermEnter ==
    /\ perm_pc = "start"
    /\ permute_ngrams # None
    /\ ngrams' = <<>>
    /\ i' = 0
    /\ num_tokens' = Len(tokens)
    /\ perm_pc' = "loop"
    /\ UNCHANGED <<tokens, rng, perm_ret>>
    /\ UNCHANGED <<truncVars, cfgVars, asmVars, splitVars, convVars, readVars, xmlVars>>

\* one pass through the body of `while i < num_tokens`
PermLoop ==
    /\ perm_pc = "loop"
    /\ i < num_tokens
    /\ Len(ngrams) < MaxIter
    /\ ngrams' = Append(ngrams, NGram(tokens, i, permute_ngrams[1]))
    /\ i' = i + permute_ngrams[1]
    /\ UNCHANGED <<tokens, num_tokens, rng, perm_pc, perm_ret>>
    /\ UNCHANGED <<truncVars, cfgVars, asmVars, splitVars, convVars, readVars, xmlVars>>

PermTo(r, shuffled) ==
    /\ ngrams' = shuffled
    /\ rng' = r.rng
    /\ perm_ret' = Some(r.tokens)

\* random.shuffle(ngrams); return reduce(lambda a,b: a + b, ngrams, [])
PermShuffle ==
    /\ perm_pc = "loop"
    /\ ~(i < num_tokens)
    /\ PermTo(Reduced(Shuffle(ngrams, rng)), Shuffle(ngrams, rng).x)
    /\ perm_pc' = "returned"
    /\ UNCHANGED <<tokens, i, num_tokens>>
    /\ UNCHANGED <<truncVars, cfgVars, asmVars, splitVars, convVars, readVars, xmlVars>>

(***************************************************************************)
(* construct_features                                                      *)
(***************************************************************************)
\* the strings of get_labels(): "false", "true", "0", "1"
L_false == <<102, 97, 108, 115, 101>>
L_true == <<116, 114, 117, 101>>
L_0 == <<ZERO>>
L_1 == <<ZERO + 1>>

\* the markers "[CLS]" and "[SEP]"
CLS == <<91, 67, 76, 83, 93>>
SEP == <<91, 83, 69, 80, 93>>

\* tokenizer.tokenize(text): the words between blanks
tokenize(text) == SelectSeq(SplitSep(text, SPACE), LAMBDA piece : piece # <<>>)

\* tokenizer.convert_tokens_to_ids(tokens): the place of each token in the
\* vocabulary; place 0 is "[PAD]", no token of a text
VocabId(tok) ==
    IF tok = CLS THEN 101
    ELSE IF tok = SEP THEN 102
    ELSE 1000 + tok[1]
convert_tokens_to_ids(toks) == [k \in 1..Len(toks) |-> VocabId(toks[k])]

Repeat(x, n) == [k \in 1..n |-> x]

\* the map with places counted from 1
LabelMap_FromOne(labels) ==
    [l \in {labels[k] : k \in 1..Len(labels)} |->
        CHOOSE k \in 1..Len(labels) :
            labels[k] = l /\ \A m \in (k + 1)..Len(labels) : labels[m] # l]

\* label_map = {}; for (i, label) in enumerate(label_list): label_map[label] = i
LabelMap(labels) ==
    [l \in {labels[k] : k \in 1..Len(labels)} |->
        (CHOOSE k \in 1..Len(labels) :
            labels[k] = l /\ \A m \in (k + 1)..Len(labels) : labels[m] # l) - 1]

\* the single-sequence branch: tokens_a[0:(max_seq_length - 2)] when longer
TruncSingle(a, max_len) ==
    IF Len(a) > max_len - 2 THEN PySlice(a, 0, max_len - 2) ELSE a

\* passes through `while len(input_ids) < max_seq_length`
PadCount(n, max_len) == Max(max_len - n, 0)

\* the whole guid in place of its second field
ArticleId_Guid(guid) ==
    [st |-> "ok", id |-> guid]

\* example.guid.split('-')[1]
ArticleId(guid) ==
    LET parts == SplitSep(guid, DASH)
    IN  IF Len(parts) < 2
        THEN [st |-> "IndexError", id |-> <<>>]
        ELSE [st |-> "ok", id |-> parts[2]]

\* an exception of class kind raised; arg is the string the exception
\* object holds besides a fixed message: none, unless it is the KeyError of
\* label_map[example.label], whose argument is the key looked up
Failed(kind, s) ==
    [st |-> kind, arg |-> None, tokens |-> <<>>, input_ids |-> <<>>,
     input_mask |-> <<>>, segment_ids |-> <<>>, label_id |-> None,
     article_id |-> None, rng |-> s]

\* KeyError(example.label)
FailedKey(example, s) == [Failed("KeyError", s) EXCEPT !.arg = example.label]

\* the end of the function without its three assertions
Finish_NoAssert(example, toks, input_ids, input_mask, segment_ids, max_len, label_map, pred, s) ==
    IF ~pred /\ (example.label = None
                 \/ example.label[1] \notin DOMAIN label_map)
    THEN FailedKey(example, s)
    ELSE IF pred /\ ArticleId(example.guid).st # "ok"
    THEN Failed("IndexError", s)
    ELSE [st |-> "ok", arg |-> None, tokens |-> toks, input_ids |-> input_ids,
          input_mask |-> input_mask, segment_ids |-> segment_ids,
          label_id |-> IF pred THEN None
                       ELSE Some(label_map[example.label[1]]),
          article_id |-> IF pred THEN Some(ArticleId(example.guid).id)
                         ELSE None,
          rng |-> s]

\* the label and the InputFeatures returned, the three lists being built.
\* `tokens` is the local the function logs; it is no field of InputFeatures.
Finish(example, toks, input_ids, input_mask, segment_ids, max_len, label_map, pred, s) ==
    \* the three assertions
    IF Len(input_ids) # max_len \/ Len(input_mask) # max_len
       \/ Len(segment_ids) # max_len
    THEN Failed("AssertionError", s)
    \* label_map[example.label]
    ELSE IF ~pred /\ (example.label = None
                      \/ example.label[1] \notin DOMAIN label_map)
    THEN FailedKey(example, s)
    ELSE IF pred /\ ArticleId(example.guid).st # "ok"
    THEN Failed("IndexError", s)
    ELSE [st |-> "ok", arg |-> None, tokens |-> toks, input_ids |-> input_ids,
          input_mask |-> input_mask, segment_ids |-> segment_ids,
          label_id |-> IF pred THEN None
                       ELSE Some(label_map[example.label[1]]),
          article_id |-> IF pred THEN Some(ArticleId(example.guid).id)
                         ELSE None,
          rng |-> s]

\* the padding with 1 appended to input_mask
Pad_MaskOnes(example, toks, ids, segs, max_len, label_map, pred, s) ==
    Finish(example, toks,
           ids \o Repeat(0, PadCount(Len(ids), max_len)),
           Repeat(1, Len(ids)) \o Repeat(1, PadCount(Len(ids), max_len)),
           segs \o Repeat(0, PadCount(Len(ids), max_len)),
           max_len, label_map, pred, s)

\* input_mask = [1] * len(input_ids), then the zero-padding loop, which
\* appends one 0 to each of the three lists per pass
Pad(example, toks, ids, segs, max_len, label_map, pred, s) ==
    Finish(example, toks,
           ids \o Repeat(0, PadCount(Len(ids), max_len)),
           Repeat(1, Len(ids)) \o Repeat(0, PadCount(Len(ids), max_len)),
           segs \o Repeat(0, PadCount(Len(ids), max_len)),
           max_len, label_map, pred, s)

\* tokens: "[CLS]", tokens_a, "[SEP]" and, `if tokens_b:`, tokens_b, "[SEP]"
TokenStream(a, b) ==
    <<CLS>> \o a \o <<SEP>> \o (IF b # <<>> THEN b \o <<SEP>> ELSE <<>>)

\* the segment ids with 0 for the tokens of tokens_b as well
SegmentIds_AllZero(a, b) ==
    Repeat(0, Len(a) + 2) \o (IF b # <<>> THEN Repeat(0, Len(b) + 1) ELSE <<>>)

\* segment_ids, appended to alongside tokens
SegmentIds(a, b) ==
    Repeat(0, Len(a) + 2) \o (IF b # <<>> THEN Repeat(1, Len(b) + 1) ELSE <<>>)

\* from the truncated lists on
BuildFeatures(example, tr, max_len, label_map, pred, s) ==
    IF tr.st = "IndexError"
    THEN Failed("IndexError", s)
    ELSE Pad(example, TokenStream(tr.a, tr.b),
             convert_tokens_to_ids(TokenStream(tr.a, tr.b)),
             SegmentIds(tr.a, tr.b), max_len, label_map, pred, s)

\* the pair made to fit by cutting tokens_b alone
Truncate_CutB(a, b, max_len) ==
    IF b # <<>>
    THEN [st |-> "break", a |-> a,
          b |-> PySlice(b, 0, Max(max_len - 3 - Len(a), 0))]
    ELSE [st |-> "break", a |-> TruncSingle(a, max_len), b |-> <<>>]

\* `if tokens_b:` (None and [] are false) the pair is truncated to
\* max_seq_length - 3, else tokens_a alone to max_seq_length - 2
Truncate(a, b, max_len) ==
    IF b # <<>>
    THEN _truncate_seq_pair(a, b, max_len - 3)
    ELSE [st |-> "break", a |-> TruncSingle(a, max_len), b |-> <<>>]

\* `if example.text_b:` None and "" are false
HasTextB(example) == example.text_b # None /\ example.text_b[1] # <<>>

\* tokens_b: None (here the empty list, which `if tokens_b:` treats alike)
\* or the permuted tokens of text_b; pa is what permutation gave for text_a
PermuteB(example, w, pa) ==
    IF HasTextB(example) /\ pa.st = "ok"
    THEN permutation(tokenize(example.text_b[1]), w, pa.rng)
    ELSE [st |-> pa.st, tokens |-> <<>>, rng |-> pa.rng]

\* from the two permuted token lists on
AfterPermutation(example, pa, pb, max_len, label_map, pred) ==
    IF pa.st # "ok" THEN Failed(pa.st, pa.rng)
    ELSE IF pb.st # "ok" THEN Failed(pb.st, pb.rng)
    ELSE BuildFeatures(example, Truncate(pa.tokens, pb.tokens, max_len),
                       max_len, label_map, pred, pb.rng)

AfterPermutationA(example, pa, max_len, label_map, pred, w) ==
    AfterPermutation(example, pa, PermuteB(example, w, pa), max_len,
                     label_map, pred)

\* construct_features(inputs) in a process whose generator is in state s:
\* the record returned or the exception raised, and the generator's state
construct_features(example, max_len, label_map, pred, w, s) ==
    AfterPermutationA(example, permutation(tokenize(example.text_a), w, s),
                      max_len, label_map, pred, w)

\* the inputs tried
Guids == {Str(0), <<LETTER + 1, DASH, ZERO + 7>>,
          <<LETTER + 1, DASH, ZERO + 7, DASH, ZERO + 8>>}
TextsA == {TextOf(n) : n \in 0..MaxWords}
TextsB == {None, Some(<<>>), Some(<<SPACE>>)} \cup {Some(TextOf(n)) : n \in 1..MaxWords}
Labels == {None, Some(L_false), Some(L_1)}
LabelLists == {<<L_false, L_true>>, <<L_0, L_1>>}
Examples == [guid : Guids, text_a : TextsA, text_b : TextsB, label : Labels]
SeqLens == 0..MaxSeqLen
AsmWidths == {None} \cup {Some(w) : w \in 0..MaxWidth}

CfgIdle ==
    /\ examples = <<>> /\ label_list = <<>> /\ max_seq_length = 0
    /\ predict = FALSE /\ seed = 0

AsmIdle == asm_pc = "idle" /\ asm_ret = None

AsmInit ==
    /\ examples \in {<<e>> : e \in Examples}
    /\ label_list \in LabelLists
    /\ max_seq_length \in SeqLens
    /\ predict \in BOOLEAN
    /\ permute_ngrams \in AsmWidths
    /\ seed \in RngStates
    /\ asm_pc = "called" /\ asm_ret = None

AsmTo(r) ==
    /\ asm_ret' = Some(r)
    /\ asm_pc' = IF r.st = "ok" THEN "returned"
                 ELSE IF r.st = "diverges" THEN "diverges"
                 ELSE "raised"

\* the call construct_features((0, examples[0], ...)), start to end
Assemble ==
    /\ asm_pc = "called"
    /\ AsmTo(construct_features(examples[1], max_seq_length,
                                LabelMap(label_list), predict,
                                permute_ngrams, seed))
    /\ UNCHANGED <<truncVars, permVars, cfgVars, splitVars, convVars, readVars, xmlVars>>

SplitIdle ==
    /\ data_file = <<>> /\ label_file = <<>> /\ self_examples = None
    /\ loads = 0 /\ last_call = "none" /\ split_ret = <<>>
    /\ train_seen = {} /\ dev_seen = {} /\ ncalls = 0

(***************************************************************************)
(* SemevalProcessor                                                        *)
(***************************************************************************)
\* line k of the text file and of the label file
DataLine(k) == <<SPACE, LETTER + k, LF>>
LabelLine(k) == (IF k % 2 = 0 THEN L_true ELSE L_false) \o <<LF>>

DataFiles == {[k \in 1..n |-> DataLine(k)] : n \in 0..MaxLines}
LabelFiles == {[k \in 1..n |-> LabelLine(k)] : n \in 0..MaxLines}

\* SemevalProcessor._create_examples: one example per pair of lines of
\* zip(data_file, label_file), with guid = str(i) for i = 0, 1, ...
_create_examples(data, labels) ==
    [k \in 1..Min(Len(data), Len(labels)) |->
        [guid |-> Str(k - 1), text_a |-> Strip(data[k]), text_b |-> None,
         label |-> Some(Strip(labels[k]))]]

\* math.floor(0.8*n)
Floor08(n) == (8 * n) \div 10

Range(q) == {q[k] : k \in 1..Len(q)}

\* the slice get_train_examples returns when self.examples is already set:
\* self.examples[:math.floor(len(self.examples))]
TrainSliceCached(ex) == PySlice(ex, 0, Len(ex))

\* the slice get_train_examples returns right after loading
TrainSliceLoaded(ex) == PySlice(ex, 0, Floor08(Len(ex)))

\* the slice get_dev_examples returns, on either branch
DevSlice(ex) == PySlice(ex, Floor08(Len(ex)), Len(ex))

\* the test with the truth value of the list, which is false for []
IsCached_Truthy(ex) == ex # None /\ ex[1] # <<>>

\* `if self.examples is not None`
IsCached(ex) == ex # None

SplitInit ==
    /\ data_file \in DataFiles
    /\ label_file \in LabelFiles
    /\ self_examples = None
    /\ loads = 0 /\ last_call = "none" /\ split_ret = <<>>
    /\ train_seen = {} /\ dev_seen = {} /\ ncalls = 0

get_train_examples ==
    /\ ncalls < MaxCalls
    /\ IF IsCached(self_examples)
       THEN /\ split_ret' = TrainSliceCached(self_examples[1])
            /\ UNCHANGED <<self_examples, loads>>
       ELSE LET ex == _create_examples(data_file, label_file)
            IN  /\ self_examples' = Some(ex)
                /\ loads' = loads + 1
                /\ split_ret' = TrainSliceLoaded(ex)
    /\ last_call' = "train"
    /\ train_seen' = train_seen \cup Range(split_ret')
    /\ ncalls' = ncalls + 1
    /\ UNCHANGED <<data_file, label_file, dev_seen>>
    /\ UNCHANGED <<truncVars, permVars, cfgVars, asmVars, convVars, readVars, xmlVars>>

get_dev_examples ==
    /\ ncalls < MaxCalls
    /\ IF IsCached(self_examples)
       THEN /\ split_ret' = DevSlice(self_examples[1])
            /\ UNCHANGED <<self_examples, loads>>
       ELSE LET ex == _create_examples(data_file, label_file)
            IN  /\ self_examples' = Some(ex)
                /\ loads' = loads + 1
                /\ split_ret' = DevSlice(ex)
    /\ last_call' = "dev"
    /\ dev_seen' = dev_seen \cup Range(split_ret')
    /\ ncalls' = ncalls + 1
    /\ UNCHANGED <<data_file, label_file, train_seen>>
    /\ UNCHANGED <<truncVars, permVars, cfgVars, asmVars, convVars, readVars, xmlVars>>


(***************************************************************************)
(* convert_examples_to_features                                            *)
(***************************************************************************)
\* the fields of InputFeatures
InputFeatures(r) ==
    [input_ids |-> r.input_ids, input_mask |-> r.input_mask,
     segment_ids |-> r.segment_ids, label_id |-> r.label_id,
     article_id |-> r.article_id]

\* number of tasks imap cuts n examples into
NumTasks(n) == (n + ChunkSize - 1) \div ChunkSize

\* the examples of task k (k = 1, 2, ...)
TaskItems(exs, k) ==
    SubSeq(exs, (k - 1) * ChunkSize + 1, Min(k * ChunkSize, Len(exs)))

\* the task's outcome so far, after one more call with outcome r
TaskWith(acc, r) ==
    IF r.st = "ok"
    THEN [st |-> "ok", arg |-> None, feats |-> Append(acc.feats, InputFeatures(r)),
          rng |-> r.rng]
    ELSE [st |-> r.st, arg |-> r.arg, feats |-> <<>>, rng |-> r.rng]

RECURSIVE RunFrom(_, _, _, _, _, _, _)
\* list(map(construct_features, chunk)) from item k on: the first exception
\* ends the task
RunFrom(items, k, acc, max_len, label_map, pred, w) ==
    IF k > Len(items) \/ acc.st # "ok"
    THEN acc
    ELSE RunFrom(items, k + 1,
                 TaskWith(acc, construct_features(items[k], max_len, label_map,
                                                  pred, w, acc.rng)),
                 max_len, label_map, pred, w)

\* a task in a worker whose generator is in state s: the records in order,
\* or the first exception; and the state the generator is left in
RunTask(items, max_len, label_map, pred, w, s) ==
    RunFrom(items, 1, [st |-> "ok", arg |-> None, feats |-> <<>>, rng |-> s], max_len,
            label_map, pred, w)

\* the records put in front of the list
Extend_Front(feats, new) == new \o feats

\* for feature in <items of the task yielded>: features.append(feature)
Extend(feats, new) == feats \o new

Workers == 1..NumWorkers

\* the examples handed over
E1 == [guid |-> <<LETTER + 1, DASH, ZERO + 7>>, text_a |-> TextOf(3),
       text_b |-> None, label |-> Some(L_false)]
E2 == [guid |-> <<LETTER + 1, DASH, ZERO + 7, DASH, ZERO + 8>>,
       text_a |-> TextOf(2), text_b |-> Some(TextOf(2)), label |-> Some(L_true)]
E3 == [guid |-> Str(0), text_a |-> TextOf(1), text_b |-> None,
       label |-> Some(L_true)]
ConvExamples == {E1, E2, E3}
ExampleLists == UNION {[1..n -> ConvExamples] : n \in 0..MaxExamples}
ConvWidths == {None} \cup {Some(w) : w \in 1..MaxWidth}

ConvIdle ==
    /\ taskq = <<>> /\ worker = <<>> /\ results = <<>> /\ next_index = 0
    /\ features = <<>> /\ conv_pc = "idle" /\ conv_exc = None
    /\ overtaken = FALSE

\* the state when the loop over p.imap(...) starts: label_map is built, the
\* pool's processes are forked from the caller and start with a copy of its
\* generator state (an interpreter that reseeds the generator in a forked
\* child gives each worker a state of its own instead, which leaves even
\* less in common between two runs), and every task is queued
ConvInit ==
    /\ examples \in ExampleLists
    /\ label_list \in LabelLists
    /\ max_seq_length \in {3, MaxSeqLen}
    /\ predict \in BOOLEAN
    /\ permute_ngrams \in ConvWidths
    /\ seed \in RngStates
    /\ taskq = [k \in 1..NumTasks(Len(examples)) |-> k]
    /\ worker = [w \in Workers |-> [rng |-> seed, job |-> None]]
    /\ results = [k \in 1..NumTasks(Len(examples)) |-> None]
    /\ next_index = 1
    /\ features = <<>>
    /\ conv_pc = "running" /\ conv_exc = None
    /\ overtaken = FALSE

\* an idle worker takes the next task off the queue
WorkerGet(w) ==
    /\ worker[w].job = None
    /\ taskq # <<>>
    /\ worker' = [worker EXCEPT ![w].job = Some(Head(taskq))]
    /\ taskq' = Tail(taskq)
    /\ UNCHANGED <<results, next_index, features, conv_pc, conv_exc, overtaken>>
    /\ UNCHANGED <<truncVars, permVars, cfgVars, asmVars, splitVars, readVars, xmlVars>>

WorkerDone(w, k, r) ==
    /\ r.st # "diverges"
    /\ results' = [results EXCEPT
                       ![k] = Some([st |-> r.st, arg |-> r.arg, feats |-> r.feats])]
    /\ worker' = [worker EXCEPT ![w] = [rng |-> r.rng, job |-> None]]
    /\ overtaken' = (overtaken \/ \E j \in 1..(k - 1) : results[j] = None)

\* a worker runs its task to the end and hands the result back; a task that
\* does not end keeps its worker for good
WorkerRun(w) ==
    /\ worker[w].job # None
    /\ WorkerDone(w, worker[w].job[1],
                  RunTask(TaskItems(examples, worker[w].job[1]), max_seq_length,
                          LabelMap(label_list), predict, permute_ngrams,
                          worker[w].rng))
    /\ UNCHANGED <<taskq, next_index, features, conv_pc, conv_exc>>
    /\ UNCHANGED <<truncVars, permVars, cfgVars, asmVars, splitVars, readVars, xmlVars>>

\* the loop takes the result of the next task in task order, once it is
\* there: its records are appended, or its exception, sent back by the
\* worker as the object it was raised as, is raised again in the caller
Collect ==
    /\ conv_pc = "running"
    /\ next_index <= Len(results)
    /\ results[next_index] # None
    /\ IF results[next_index][1].st = "ok"
       THEN /\ features' = Extend(features, results[next_index][1].feats)
            /\ next_index' = next_index + 1
            /\ UNCHANGED <<conv_pc, conv_exc>>
       ELSE /\ conv_pc' = "raised"
            /\ conv_exc' = Some([class |-> results[next_index][1].st,
                                  arg |-> results[next_index][1].arg])
            /\ UNCHANGED <<features, next_index>>
    /\ UNCHANGED <<taskq, worker, results, overtaken>>
    /\ UNCHANGED <<truncVars, permVars, cfgVars, asmVars, splitVars, readVars, xmlVars>>

\* return features
Return ==
    /\ conv_pc = "running"
    /\ next_index > Len(results)
    /\ conv_pc' = "returned"
    /\ UNCHANGED <<taskq, worker, results, next_index, features, conv_exc,
                   overtaken>>
    /\ UNCHANGED <<truncVars, permVars, cfgVars, asmVars, splitVars, readVars, xmlVars>>


(***************************************************************************)
(* SemevalProcessor2                                                       *)
(***************************************************************************)
\* the strings "train" and "validation" of get_train_examples and
\* get_dev_examples
S_train == <<116, 114, 97, 105, 110>>
S_validation == <<118, 97, 108, 105, 100, 97, 116, 105, 111, 110>>

\* the example with the text line left as read
create_example_semeval2_Raw(k, text_line, label, st) ==
    [guid |-> st \o <<DASH>> \o Str(k), text_a |-> text_line, text_b |-> None,
     label |-> Some(Strip(label))]

\* create_example_semeval2((i, text_line, label, set_type))
create_example_semeval2(k, text_line, label, st) ==
    [guid |-> st \o <<DASH>> \o Str(k), text_a |-> Strip(text_line),
     text_b |-> None, label |-> Some(Strip(label))]

\* number of items of zip(count(), data_file, label_file, repeat(set_type))
NumZipped(data, labels) == Min(Len(data), Len(labels))

\* the results of task k: create_example_semeval2 mapped over its items,
\* which are the tuples number (k-1)*chunksize and following of the zip
ReaderTask(data, labels, st, k) ==
    [j \in 1..(Min(k * ChunkSize, NumZipped(data, labels)) - (k - 1) * ChunkSize) |->
        create_example_semeval2((k - 1) * ChunkSize + j - 1,
                                data[(k - 1) * ChunkSize + j],
                                labels[(k - 1) * ChunkSize + j], st)]

ReadIdle ==
    /\ set_type = <<>> /\ rd_taskq = <<>> /\ rd_worker = <<>>
    /\ rd_results = <<>> /\ rd_next = 0 /\ rd_examples = <<>>
    /\ rd_pc = "idle" /\ rd_overtaken = FALSE

\* the state when the loop over p.imap(...) starts, in a fresh processor
\* with the two files opened: every task is queued
ReaderInit ==
    /\ SplitInit
    /\ set_type \in {S_train, S_validation}
    /\ rd_taskq = [k \in 1..NumTasks(NumZipped(data_file, label_file)) |-> k]
    /\ rd_worker = [w \in Workers |-> None]
    /\ rd_results = [k \in 1..NumTasks(NumZipped(data_file, label_file)) |-> None]
    /\ rd_next = 1
    /\ rd_examples = <<>>
    /\ rd_pc = "running"
    /\ rd_overtaken = FALSE

\* an idle worker takes the next task off the queue
ReaderGet(w) ==
    /\ rd_worker[w] = None
    /\ rd_taskq # <<>>
    /\ rd_worker' = [rd_worker EXCEPT ![w] = Some(Head(rd_taskq))]
    /\ rd_taskq' = Tail(rd_taskq)
    /\ UNCHANGED <<set_type, rd_results, rd_next, rd_examples, rd_pc, rd_overtaken>>
    /\ UNCHANGED <<truncVars, permVars, cfgVars, asmVars, splitVars, convVars, xmlVars>>

\* a worker runs its task to the end and hands the result back
ReaderRun(w) ==
    /\ rd_worker[w] # None
    /\ rd_results' = [rd_results EXCEPT
                          ![rd_worker[w][1]] =
                              Some(ReaderTask(data_file, label_file, set_type,
                                              rd_worker[w][1]))]
    /\ rd_worker' = [rd_worker EXCEPT ![w] = None]
    /\ rd_overtaken' = (rd_overtaken
                        \/ \E j \in 1..(rd_worker[w][1] - 1) : rd_results[j] = None)
    /\ UNCHANGED <<set_type, rd_taskq, rd_next, rd_examples, rd_pc>>
    /\ UNCHANGED <<truncVars, permVars, cfgVars, asmVars, splitVars, convVars, xmlVars>>

\* for example in p.imap(...): examples.append(example), for the examples
\* of the next task in task order, once its result is there
ReaderCollect ==
    /\ rd_pc = "running"
    /\ rd_next <= Len(rd_results)
    /\ rd_results[rd_next] # None
    /\ rd_examples' = rd_examples \o rd_results[rd_next][1]
    /\ rd_next' = rd_next + 1
    /\ UNCHANGED <<set_type, rd_taskq, rd_worker, rd_results, rd_pc, rd_overtaken>>
    /\ UNCHANGED <<truncVars, permVars, cfgVars, asmVars, splitVars, convVars, xmlVars>>

\* return examples
ReaderReturn ==
    /\ rd_pc = "running"
    /\ rd_next > Len(rd_results)
    /\ rd_pc' = "returned"
    /\ UNCHANGED <<set_type, rd_taskq, rd_worker, rd_results, rd_next, rd_examples,
                   rd_overtaken>>
    /\ UNCHANGED <<truncVars, permVars, cfgVars, asmVars, splitVars, convVars, xmlVars>>


(***************************************************************************)
(* SemevalOfficialProcessor                                                *)
(***************************************************************************)
\* the strings "inference", "None", ".xml" and "&amp;", and the character '&'
S_inference == <<105, 110, 102, 101, 114, 101, 110, 99, 101>>
S_None == <<78, 111, 110, 101>>
S_xml == <<46, 120, 109, 108>>
S_amp == <<38, 97, 109, 112, 59>>
AMP == 38

\* f.endswith(suffix)
EndsWith(f, suffix) ==
    Len(f) >= Len(suffix) /\ SubSeq(f, Len(f) - Len(suffix) + 1, Len(f)) = suffix

\* "%s" % x for x a str or None
Fmt(x) == IF x = None THEN S_None ELSE x[1]

\* the two fields the other way round
OfficialGuid_Swapped(st, id) == Fmt(id) \o <<DASH>> \o st

\* article_guid = "%s-%s" % (set_type, article_id)
OfficialGuid(st, id) == st \o <<DASH>> \o Fmt(id)

\* str.lower()
Lower(str) == [k \in 1..Len(str) |-> IF str[k] \in 65..90 THEN str[k] + 32 ELSE str[k]]

RECURSIVE Unescape(_)
\* html.unescape(str), for the one entity the texts here hold
Unescape(str) ==
    IF str = <<>> THEN <<>>
    ELSE IF IsPrefix(S_amp, str)
    THEN <<AMP>> \o Unescape(SubSeq(str, Len(S_amp) + 1, Len(str)))
    ELSE <<Head(str)>> \o Unescape(Tail(str))

RECURSIVE JoinSpace(_)
\* " ".join(pieces)
JoinSpace(pieces) ==
    IF pieces = <<>> THEN <<>>
    ELSE IF Len(pieces) = 1 THEN pieces[1]
    ELSE pieces[1] \o <<SPACE>> \o JoinSpace(Tail(pieces))

\* " ".join(str.split())
Collapse(str) == JoinSpace(SelectSeq(SplitSep(str, SPACE), LAMBDA piece : piece # <<>>))

\* an article element of the tree: its id attribute, the text fragments
\* under its spacy node (None when it has no such node), and whether
\* clear() was called on it
Element(id, spacy) == [id |-> id, spacy |-> spacy, cleared |-> FALSE]

\* elem.clear(): the attributes, the text and the children are gone
Clear(elem) == [id |-> None, spacy |-> None, cleared |-> TRUE]

\* article.get('id')
GetId(elem) == elem.id

\* self._extract_text(article): article.find("spacy") is None for an element
\* without that child, and None has no itertext
_extract_text(article) ==
    IF article.spacy = None
    THEN [st |-> "AttributeError", text |-> <<>>]
    ELSE [st |-> "ok", text |-> Lower(Unescape(Concat(article.spacy[1])))]

\* predict.do_preprocess([data_file], temp_fp), and the tree iterparse builds
\* from what it wrote: one article element per article of the corpus, in
\* document order, with the article's id and its text under a spacy node
do_preprocess(articles) ==
    [k \in 1..Len(articles) |-> Element(articles[k].id, Some(articles[k].frags))]

\* the articles of the corpus: id "7" with the text "A " + " b", id "8" with
\* the text "&amp;", and an article without id and text
A7 == [id |-> Some(<<ZERO + 7>>), frags |-> <<<<65, SPACE>>, <<SPACE, LETTER + 2>>>>]
A8 == [id |-> Some(<<ZERO + 8>>), frags |-> <<S_amp>>]
ANoId == [id |-> None, frags |-> <<>>]
Articles == {A7, A8, ANoId}
Corpora == UNION {[1..n -> Articles] : n \in 0..MaxArticles}

\* the names "c.xml", "c.txt" and "xml", and what os.listdir may give
N_xml == <<LETTER + 3>> \o S_xml
N_txt == <<LETTER + 3, 46, 116, 120, 116>>
N_bare == <<120, 109, 108>>
FileNames == {N_xml, N_txt, N_bare}
Listings ==
    {l \in UNION {[1..n -> FileNames] : n \in 0..MaxFiles} :
        \A j, k \in 1..Len(l) : l[j] = l[k] => j = k}

HasXml(l) == \E k \in 1..Len(l) : EndsWith(l[k], S_xml)

XmlIdle ==
    /\ dir_exists = FALSE /\ listing = <<>> /\ corpus = <<>> /\ elems = <<>>
    /\ gen_started = FALSE /\ gen_cur = 0
    /\ article_id = None /\ article_text = <<>> /\ x_examples = <<>>
    /\ xml_pc = "idle" /\ xml_ret = None /\ xml_exc = None
    /\ yields = <<>> /\ consumed = {} /\ read_cleared = FALSE

\* get_dev_examples(data_dir) is called on a fresh processor
XmlInit ==
    /\ dir_exists \in BOOLEAN
    /\ listing \in (IF dir_exists THEN Listings ELSE {<<>>})
    /\ corpus \in (IF HasXml(listing) THEN Corpora ELSE {<<>>})
    /\ elems = <<>>
    /\ gen_started = FALSE /\ gen_cur = 0
    /\ article_id = None /\ article_text = <<>> /\ x_examples = <<>>
    /\ xml_pc = "called" /\ xml_ret = None /\ xml_exc = None
    /\ yields = [k \in 1..Len(corpus) |-> 0]
    /\ consumed = {} /\ read_cleared = FALSE

\* get_dev_examples up to the call of _create_examples: os.listdir raises
\* for a directory that is not there; the first name ending in ".xml" is
\* opened and handed to _create_examples; with no such name the loop ends
\* and the function falls off its end, which returns None
Official_get_dev_examples ==
    /\ xml_pc = "called"
    /\ IF ~dir_exists
       THEN xml_pc' = "raised" /\ xml_exc' = Some("FileNotFoundError")
       ELSE IF HasXml(listing)
       THEN xml_pc' = "create" /\ xml_exc' = xml_exc
       ELSE xml_pc' = "returned" /\ xml_exc' = xml_exc
    /\ xml_ret' = None
    /\ UNCHANGED <<dir_exists, listing, corpus, elems, gen_started, gen_cur,
                   article_id, article_text, x_examples, yields, consumed,
                   read_cleared>>
    /\ UNCHANGED <<truncVars, permVars, cfgVars, asmVars, splitVars, convVars, readVars>>

\* _create_examples up to its loop: examples = [], the file is preprocessed,
\* and self._do_xml_parse(temp_fp, 'article') makes the generator
Official_create_examples ==
    /\ xml_pc = "create"
    /\ x_examples' = <<>>
    /\ elems' = do_preprocess(corpus)
    /\ gen_started' = FALSE
    /\ gen_cur' = 0
    /\ xml_pc' = "next"
    /\ UNCHANGED <<dir_exists, listing, corpus, article_id, article_text, xml_ret,
                   xml_exc, yields, consumed, read_cleared>>
    /\ UNCHANGED <<truncVars, permVars, cfgVars, asmVars, splitVars, convVars, readVars>>

\* the for statement asks the generator for its first element: the body of
\* _do_xml_parse starts (fp.seek(0), elements = enumerate(...))
GenStart ==
    /\ xml_pc = "next"
    /\ ~gen_started
    /\ gen_started' = TRUE
    /\ xml_pc' = "advance"
    /\ UNCHANGED <<dir_exists, listing, corpus, elems, gen_cur, article_id,
                   article_text, x_examples, xml_ret, xml_exc, yields, consumed,
                   read_cleared>>
    /\ UNCHANGED <<truncVars, permVars, cfgVars, asmVars, splitVars, convVars, readVars>>

\* the for statement asks for the next element: the generator goes on after
\* its yield with elem.clear()
GenClear ==
    /\ xml_pc = "next"
    /\ gen_started
    /\ elems' = [elems EXCEPT ![gen_cur] = Clear(elems[gen_cur])]
    /\ xml_pc' = "advance"
    /\ UNCHANGED <<dir_exists, listing, corpus, gen_started, gen_cur, article_id,
                   article_text, x_examples, xml_ret, xml_exc, yields, consumed,
                   read_cleared>>
    /\ UNCHANGED <<truncVars, permVars, cfgVars, asmVars, splitVars, convVars, readVars>>

\* the same, the element cleared as it is yielded
GenAdvance_Cleared ==
    /\ xml_pc = "advance"
    /\ IF gen_cur < Len(elems)
       THEN /\ gen_cur' = gen_cur + 1
            /\ yields' = [yields EXCEPT ![gen_cur + 1] = yields[gen_cur + 1] + 1]
            /\ elems' = [elems EXCEPT ![gen_cur + 1] = Clear(elems[gen_cur + 1])]
            /\ xml_pc' = "body"
       ELSE /\ xml_pc' = "return"
            /\ UNCHANGED <<gen_cur, yields, elems>>
    /\ UNCHANGED <<dir_exists, listing, corpus, gen_started, article_id,
                   article_text, x_examples, xml_ret, xml_exc, consumed,
                   read_cleared>>
    /\ UNCHANGED <<truncVars, permVars, cfgVars, asmVars, splitVars, convVars, readVars>>

\* for i, (event, elem) in elements: the next article element of the
\* document is yielded to the loop of _create_examples, or, none being
\* left, the generator ends and with it that loop
GenAdvance ==
    /\ xml_pc = "advance"
    /\ IF gen_cur < Len(elems)
       THEN /\ gen_cur' = gen_cur + 1
            /\ yields' = [yields EXCEPT ![gen_cur + 1] = yields[gen_cur + 1] + 1]
            /\ xml_pc' = "body"
       ELSE /\ xml_pc' = "return"
            /\ UNCHANGED <<gen_cur, yields>>
    /\ UNCHANGED <<dir_exists, listing, corpus, elems, gen_started, article_id,
                   article_text, x_examples, xml_ret, xml_exc, consumed,
                   read_cleared>>
    /\ UNCHANGED <<truncVars, permVars, cfgVars, asmVars, splitVars, convVars, readVars>>

\* the state after the element was read with outcome r
ReadTo(r) ==
    /\ article_text' = Collapse(r.text)
    /\ xml_pc' = IF r.st = "ok" THEN "append" ELSE "raised"
    /\ xml_exc' = IF r.st = "ok" THEN xml_exc ELSE Some(r.st)

\* article_id = article.get('id'); article_text = " ".join(
\* self._extract_text(article).split())
ReadArticle ==
    /\ xml_pc = "body"
    /\ article_id' = GetId(elems[gen_cur])
    /\ ReadTo(_extract_text(elems[gen_cur]))
    /\ read_cleared' = (read_cleared \/ elems[gen_cur].cleared)
    /\ UNCHANGED <<dir_exists, listing, corpus, elems, gen_started, gen_cur,
                   x_examples, xml_ret, yields, consumed>>
    /\ UNCHANGED <<truncVars, permVars, cfgVars, asmVars, splitVars, convVars, readVars>>

\* examples.append(InputExample(guid=article_guid, text_a=article_text,
\* text_b=None, label=None)), which ends the loop body
AppendExample ==
    /\ xml_pc = "append"
    /\ x_examples' = Append(x_examples,
                            [guid |-> OfficialGuid(S_inference, article_id),
                             text_a |-> article_text, text_b |-> None,
                             label |-> None])
    /\ consumed' = consumed \cup {gen_cur}
    /\ xml_pc' = "next"
    /\ UNCHANGED <<dir_exists, listing, corpus, elems, gen_started, gen_cur,
                   article_id, article_text, xml_ret, xml_exc, yields,
                   read_cleared>>
    /\ UNCHANGED <<truncVars, permVars, cfgVars, asmVars, splitVars, convVars, readVars>>

\* return examples, which get_dev_examples returns in turn
Official_return ==
    /\ xml_pc = "return"
    /\ xml_ret' = Some(x_examples)
    /\ xml_pc' = "returned"
    /\ UNCHANGED <<dir_exists, listing, corpus, elems, gen_started, gen_cur,
                   article_id, article_text, x_examples, xml_exc, yields,
                   consumed, read_cleared>>
    /\ UNCHANGED <<truncVars, permVars, cfgVars, asmVars, splitVars, convVars, readVars>>

(***************************************************************************)
(* Specifications                                                          *)
(***************************************************************************)
InitTrunc ==
    /\ TruncInit /\ PermIdle /\ CfgIdle /\ permute_ngrams = None /\ AsmIdle
    /\ SplitIdle /\ ConvIdle /\ ReadIdle /\ XmlIdle
NextTrunc == TruncStep
SpecTrunc == InitTrunc /\ [][NextTrunc]_vars

InitPerm ==
    /\ PermInit /\ TruncIdle /\ CfgIdle /\ AsmIdle /\ SplitIdle /\ ConvIdle
    /\ ReadIdle /\ XmlIdle
NextPerm == PermNone \/ PermEnter \/ PermLoop \/ PermShuffle
SpecPerm == InitPerm /\ [][NextPerm]_vars

InitAssemble ==
    /\ AsmInit /\ TruncIdle /\ PermIdle /\ SplitIdle /\ ConvIdle /\ ReadIdle /\ XmlIdle
NextAssemble == Assemble
SpecAssemble == InitAssemble /\ [][NextAssemble]_vars

InitSplit ==
    /\ SplitInit /\ TruncIdle /\ PermIdle /\ CfgIdle /\ permute_ngrams = None
    /\ AsmIdle /\ ConvIdle /\ ReadIdle /\ XmlIdle
NextSplit == get_train_examples \/ get_dev_examples
SpecSplit == InitSplit /\ [][NextSplit]_vars

Init ==
    /\ ConvInit /\ TruncIdle /\ PermIdle /\ AsmIdle /\ SplitIdle /\ ReadIdle
    /\ XmlIdle

InitReader ==
    /\ ReaderInit /\ TruncIdle /\ PermIdle /\ CfgIdle /\ permute_ngrams = None
    /\ AsmIdle /\ ConvIdle /\ XmlIdle
NextReader ==
    \/ \E w \in Workers : ReaderGet(w)
    \/ \E w \in Workers : ReaderRun(w)
    \/ ReaderCollect
    \/ ReaderReturn
SpecReader == InitReader /\ [][NextReader]_vars

InitXml ==
    /\ XmlInit /\ TruncIdle /\ PermIdle /\ CfgIdle /\ permute_ngrams = None
    /\ AsmIdle /\ SplitIdle /\ ConvIdle /\ ReadIdle
NextXml ==
    \/ Official_get_dev_examples
    \/ Official_create_examples
    \/ GenStart
    \/ GenClear
    \/ GenAdvance
    \/ ReadArticle
    \/ AppendExample
    \/ Official_return
SpecXml == InitXml /\ [][NextXml]_vars
Next ==
    \/ \E w \in Workers : WorkerGet(w)
    \/ \E w \in Workers : WorkerRun(w)
    \/ Collect
    \/ Return
Spec == Init /\ [][Next]_vars

(***************************************************************************)
(* The cached-split source (SpecSplit)                                     *)
(***************************************************************************)
AllLoaded == _create_examples(data_file, label_file)

\* C2: every get_train_examples call returns examples[0 : floor(0.8*N)] and
\* every get_dev_examples call returns examples[floor(0.8*N) : N], whatever
\* calls preceded it, so no example is returned both by a train call and by
\* a dev call.
C2_SplitIsStable ==
    /\ last_call = "train" =>
           split_ret = SubSeq(AllLoaded, 1, Floor08(Len(AllLoaded)))
    /\ last_call = "dev" =>
           split_ret = SubSeq(AllLoaded, Floor08(Len(AllLoaded)) + 1, Len(AllLoaded))
    /\ train_seen \cap dev_seen = {}

(***************************************************************************)
(* The truncation (SpecTrunc)                                              *)
(***************************************************************************)
\* what the last pass did to the lists, given the list it removed from
RemovedFrom(side) ==
    IF side = "a"
    THEN tokens_a = Front(last_iter.a) /\ tokens_b = last_iter.b
    ELSE tokens_b = Front(last_iter.b) /\ tokens_a = last_iter.a

\* C3 as stated: in every pass over budget the last token is removed from
\* the strictly longer list, and from A when the lengths are equal.
C3_TiesRemoveFromA ==
    last_iter.popped \in {"a", "b"} =>
        /\ Len(last_iter.a) > Len(last_iter.b) => last_iter.popped = "a"
        /\ Len(last_iter.a) < Len(last_iter.b) => last_iter.popped = "b"
        /\ Len(last_iter.a) = Len(last_iter.b) => last_iter.popped = "a"
        /\ RemovedFrom(last_iter.popped)

\* C3 amended: in every pass over budget the last token is removed from the
\* strictly longer list, and from B when the lengths are equal; when both
\* are empty the removal raises IndexError and nothing is removed.
C3_TiesRemoveFromB ==
    last_iter.popped # "none" =>
        /\ Len(last_iter.a) + Len(last_iter.b) > max_length
        /\ Len(last_iter.a) > Len(last_iter.b) =>
               last_iter.popped = "a" /\ RemovedFrom("a")
        /\ Len(last_iter.a) < Len(last_iter.b) =>
               last_iter.popped = "b" /\ RemovedFrom("b")
        /\ Len(last_iter.a) = Len(last_iter.b) /\ last_iter.b # <<>> =>
               last_iter.popped = "b" /\ RemovedFrom("b")
        /\ last_iter.a = <<>> /\ last_iter.b = <<>> =>
               /\ last_iter.popped = "IndexError"
               /\ trunc_pc = "IndexError"
               /\ tokens_a = <<>> /\ tokens_b = <<>>

\* a pass over budget has just met two lists of equal, non-zero length
C3_Witness ==
    /\ last_iter.popped = "b"
    /\ Len(last_iter.a) = Len(last_iter.b)
    /\ Len(last_iter.a) >= 2
    /\ trunc_pc = "loop"

Excess(a, b) == Max(Len(a) + Len(b) - max_length, 0)

\* what C4 says of a call, for the budgets it is checked on
TruncContract ==
    /\ trunc_pc # "IndexError"
    \* each pass removes one token, and the call ends when none is in excess
    /\ pops + Excess(tokens_a, tokens_b) = Excess(orig_a, orig_b)
    /\ trunc_pc = "loop" => ENABLED TruncStep
    /\ IsPrefix(tokens_a, orig_a) /\ IsPrefix(tokens_b, orig_b)
    /\ trunc_pc = "done" =>
           /\ pops = Excess(orig_a, orig_b)
           /\ Len(tokens_a) + Len(tokens_b) <= max_length
           /\ Len(orig_a) + Len(orig_b) <= max_length =>
                  tokens_a = orig_a /\ tokens_b = orig_b
           /\ orig_a = TokensOf(5) /\ orig_b = TokensOf(2) /\ max_length = 4 =>
                  tokens_a = TokensOf(2) /\ tokens_b = TokensOf(2)

\* C4 as stated: for all A, B and every budget the call ends after exactly
\* max(0, len(A)+len(B)-budget) removals with len(A)+len(B) <= budget, leaves
\* lists that fit untouched and each result a prefix of its original.
C4_EveryBudget == TruncContract

\* C4 amended: the same for every budget >= 0; with a negative budget the
\* call removes every token and then raises IndexError.
C4_NonNegativeBudget ==
    /\ max_length >= 0 => TruncContract
    /\ max_length < 0 =>
           /\ trunc_pc # "done"
           /\ pops = Len(orig_a) + Len(orig_b) - Len(tokens_a) - Len(tokens_b)
           /\ trunc_pc = "IndexError" => tokens_a = <<>> /\ tokens_b = <<>>

\* the call on A=[1,2,3,4,5], B=[1,2], budget 4 has ended
C4_Witness ==
    /\ trunc_pc = "done"
    /\ orig_a = TokensOf(5) /\ orig_b = TokensOf(2) /\ max_length = 4
    /\ pops = 3
    /\ tokens_a = TokensOf(2) /\ tokens_b = TokensOf(2)

(***************************************************************************)
(* The permutation (SpecPerm)                                              *)
(***************************************************************************)
\* the consecutive width-w chunks of a list, the last one possibly shorter
NumChunks(toks, w) == (Len(toks) + w - 1) \div w
ChunkOf(toks, w, j) == SubSeq(toks, (j - 1) * w + 1, Min(j * w, Len(toks)))

ChunkOrders(m) == {p \in [1..m -> 1..m] : \A j, k \in 1..m : p[j] = p[k] => j = k}

IsChunkPermutation(out, toks, w) ==
    \E p \in ChunkOrders(NumChunks(toks, w)) :
        out = Concat([j \in 1..NumChunks(toks, w) |-> ChunkOf(toks, w, p[j])])

\* C10: with a width w >= 1 the list returned is the concatenation of some
\* permutation of the consecutive width-w chunks of the input (the last one
\* possibly shorter), each chunk contiguous and in its own order; with the
\* width None the list returned is the input.
C10_ChunksPermuted ==
    perm_pc = "returned" =>
        /\ permute_ngrams = None => perm_ret = Some(tokens)
        /\ permute_ngrams # None /\ permute_ngrams[1] >= 1 =>
               /\ perm_ret # None
               /\ Len(perm_ret[1]) = Len(tokens)
               /\ IsChunkPermutation(perm_ret[1], tokens, permute_ngrams[1])

\* five tokens in chunks of two came back in another order
C10_Witness ==
    /\ perm_pc = "returned"
    /\ permute_ngrams = Some(2)
    /\ tokens = TokensOf(5)
    /\ perm_ret # Some(tokens)

(***************************************************************************)
(* The feature assembly (SpecAssemble)                                     *)
(***************************************************************************)
\* the example of the call, what the call gave, and the case it is in
TheExample == examples[1]
Ret == asm_ret[1]
LabelKnown ==
    /\ TheExample.label # None
    /\ \E k \in 1..Len(label_list) : label_list[k] = TheExample.label[1]
WordsA == Len(tokenize(TheExample.text_a))
WordsB == IF TheExample.text_b = None THEN 0 ELSE Len(tokenize(TheExample.text_b[1]))
PairInput == WordsB > 0

AllOfLength(r, n) ==
    Len(r.input_ids) = n /\ Len(r.input_mask) = n /\ Len(r.segment_ids) = n

\* C5 as stated: every record returned has its three lists of length L, and
\* when the content cannot be made to fit (L is below the two markers every
\* record holds) the call fails with the length assertions.
C5_FailsByAssertion ==
    /\ asm_pc = "returned" => AllOfLength(Ret, max_seq_length)
    /\ asm_pc \in {"returned", "raised"} /\ max_seq_length < 2 =>
           Ret.st = "AssertionError"

\* C5 amended: every record returned has its three lists of length L; with
\* L < 2 no record is returned, and the call fails with the length
\* assertions for a single-sequence input, while for a pair input and any
\* L < 3 it fails before them, with the IndexError of _truncate_seq_pair.
C5_LengthOrFailure ==
    /\ asm_pc = "returned" =>
           /\ AllOfLength(Ret, max_seq_length)
           /\ max_seq_length >= 2
    /\ asm_pc = "raised" /\ max_seq_length < 2 /\ ~PairInput =>
           Ret.st = "AssertionError"
    /\ asm_pc = "raised" /\ max_seq_length < 3 /\ PairInput =>
           Ret.st = "IndexError"
    /\ asm_pc \in {"returned", "raised"} /\ Ret.st = "AssertionError" =>
           max_seq_length < 2 /\ ~PairInput

\* a record came back for a pair input that had to be truncated
C5_Witness ==
    /\ asm_pc = "returned"
    /\ PairInput
    /\ WordsA + WordsB > max_seq_length - 3
    /\ WordsA + 2 > max_seq_length - 2
    /\ AllOfLength(Ret, max_seq_length)

\* C6: in every record returned, with n the number of real tokens (markers
\* and kept tokens), input_mask is 1 at every position below n and 0 from n
\* on, and input_ids, input_mask and segment_ids are all 0 from n on.
C6_MaskPrefixAndPadding ==
    asm_pc = "returned" =>
        /\ Len(Ret.tokens) <= max_seq_length
        /\ Len(Ret.tokens) >= 2
        /\ \A k \in 1..max_seq_length :
               /\ k <= Len(Ret.tokens) => Ret.input_mask[k] = 1
               /\ k > Len(Ret.tokens) =>
                      /\ Ret.input_ids[k] = 0
                      /\ Ret.input_mask[k] = 0
                      /\ Ret.segment_ids[k] = 0

\* a record of a pair input came back with at least two padded positions
C6_Witness ==
    /\ asm_pc = "returned"
    /\ PairInput
    /\ Len(Ret.tokens) + 2 <= max_seq_length
    /\ Ret.input_mask[max_seq_length] = 0
    /\ Ret.segment_ids[Len(Ret.tokens)] = 1

\* the label's place in the label list, counted from 0
IsPlaceOf(id, label) ==
    /\ id \in 0..(Len(label_list) - 1)
    /\ label_list[id + 1] = label

\* C8 as stated: in training/eval mode a record's label_id is the place of
\* the example's label in the label list, and an example whose label is
\* outside the list makes the call fail with the unknown-label error.
C8_UnknownLabelError ==
    ~predict =>
        /\ asm_pc = "returned" =>
               /\ LabelKnown
               /\ Ret.label_id # None
               /\ IsPlaceOf(Ret.label_id[1], TheExample.label[1])
        /\ asm_pc \in {"returned", "raised"} /\ ~LabelKnown =>
               Ret.st = "KeyError"

\* C8 amended: in training/eval mode a record's label_id is the place of the
\* example's label in the label list; an example whose label is outside the
\* list never yields a record, and the call fails with the unknown-label
\* error (KeyError) whenever L >= 3, while with a smaller L the IndexError of
\* the truncation or the length assertion is raised first.
C8_LabelIdOrFailure ==
    ~predict =>
        /\ asm_pc = "returned" =>
               /\ LabelKnown
               /\ Ret.label_id # None
               /\ IsPlaceOf(Ret.label_id[1], TheExample.label[1])
        /\ ~LabelKnown => asm_pc # "returned"
        /\ asm_pc = "raised" /\ ~LabelKnown /\ max_seq_length >= 3 =>
               Ret.st = "KeyError"
        /\ asm_pc = "raised" /\ Ret.st = "KeyError" => ~LabelKnown
        /\ asm_pc = "raised" /\ ~LabelKnown /\ Ret.st # "KeyError" =>
               /\ max_seq_length < 3
               /\ Ret.st \in {"IndexError", "AssertionError"}

\* a record came back whose label is the second of the label list
C8_Witness ==
    /\ ~predict
    /\ asm_pc = "returned"
    /\ TheExample.label = Some(label_list[2])
    /\ Ret.label_id = Some(1)

FirstDash(g) == CHOOSE k \in 1..Len(g) : g[k] = DASH /\ \A m \in 1..(k - 1) : g[m] # DASH
AfterFirstDash(g) == SubSeq(g, FirstDash(g) + 1, Len(g))
SecondField(g) ==
    IF \E k \in 1..Len(AfterFirstDash(g)) : AfterFirstDash(g)[k] = DASH
    THEN SubSeq(AfterFirstDash(g), 1, FirstDash(AfterFirstDash(g)) - 1)
    ELSE AfterFirstDash(g)
HasDash(g) == \E k \in 1..Len(g) : g[k] = DASH

AssembledFrom(r, e) ==
    \E s \in RngStates :
        /\ construct_features(e, max_seq_length, LabelMap(label_list), predict,
                              permute_ngrams, s).st = "ok"
        /\ r = InputFeatures(construct_features(e, max_seq_length,
                                                LabelMap(label_list), predict,
                                                permute_ngrams, s))

\* C1: when convert_examples_to_features returns, under every interleaving
\* of the workers, the list holds one record per example and the i-th
\* record is the one assembled from the i-th example.
C1_OutputInInputOrder ==
    conv_pc = "returned" =>
        /\ Len(features) = Len(examples)
        /\ \A k \in 1..Len(examples) : AssembledFrom(features[k], examples[k])

\* the call returned three records of three different examples after a
\* later task had finished before an earlier one
C1_Witness ==
    /\ conv_pc = "returned"
    /\ overtaken
    /\ Len(examples) = 3
    /\ examples[1] # examples[2] /\ examples[2] # examples[3]
    /\ examples[1] # examples[3]
    /\ Len(features) = 3

\* what a pool of one worker returns: the one process runs every task in
\* turn, from the generator state it was forked with
OneWorkerFeatures ==
    RunTask(examples, max_seq_length, LabelMap(label_list), predict,
            permute_ngrams, seed).feats

\* C7: for the same examples, configuration and seed, the list returned is
\* the same with one worker and with several, under every assignment of
\* tasks to workers.
C7_SameAsOneWorker ==
    conv_pc = "returned" => features = OneWorkerFeatures

(***************************************************************************)
(* The token layout (SpecAssemble)                                         *)
(***************************************************************************)
\* the real tokens of the record returned, and where its first "[SEP]" is
RealTokens == Ret.tokens
NumReal == Len(RealTokens)
FirstSep ==
    CHOOSE k \in 1..NumReal :
        RealTokens[k] = SEP /\ \A m \in 1..(k - 1) : RealTokens[m] # SEP

\* what lies between the markers
KeptA == SubSeq(RealTokens, 2, FirstSep - 1)
HasSectionB == NumReal > FirstSep
KeptB == SubSeq(RealTokens, FirstSep + 1, NumReal - 1)

IsMarker(tok) == tok \in {CLS, SEP}

\* kept is what is left of the tokens of text: a prefix of them when they
\* are not permuted, else some of them, none twice, none a marker
KeptOf(kept, text) ==
    /\ \A k \in 1..Len(kept) :
           /\ ~IsMarker(kept[k])
           /\ \E m \in 1..Len(tokenize(text)) : tokenize(text)[m] = kept[k]
           /\ \A m \in 1..Len(kept) : kept[m] = kept[k] => m = k
    /\ permute_ngrams = None => IsPrefix(kept, tokenize(text))

\* one leading marker, the kept tokens of text_a and one separator, with
\* segment id 0, and input_ids the vocabulary places of the real tokens
LayoutOfA ==
    /\ NumReal >= 2
    /\ NumReal <= max_seq_length
    /\ RealTokens[1] = CLS
    /\ \E k \in 2..NumReal : RealTokens[k] = SEP
    /\ KeptOf(KeptA, TheExample.text_a)
    /\ \A k \in 1..FirstSep : Ret.segment_ids[k] = 0
    /\ \A k \in 1..NumReal : Ret.input_ids[k] = VocabId(RealTokens[k])

\* the kept tokens of text_b and one trailing separator, with segment id 1
LayoutOfB ==
    /\ TheExample.text_b # None
    /\ RealTokens[NumReal] = SEP
    /\ KeptB # <<>>
    /\ KeptOf(KeptB, TheExample.text_b[1])
    /\ \A k \in (FirstSep + 1)..NumReal : Ret.segment_ids[k] = 1

\* C11 as stated, with "text_b is present" read at its most favourable (the
\* text has at least one token): the real tokens of every record are one
\* leading marker, the kept tokens of A, one separator, then, if text_b is
\* present, the kept tokens of B and one trailing separator; segment_ids is
\* 0 up to the first separator and 1 on the tokens of B and the trailing
\* separator.
C11_TrailingSepIfTextB ==
    asm_pc = "returned" =>
        /\ LayoutOfA
        /\ PairInput =>
               /\ HasSectionB
               /\ RealTokens[NumReal] = SEP
               /\ \A k \in (FirstSep + 1)..NumReal : Ret.segment_ids[k] = 1
        /\ ~PairInput => ~HasSectionB

\* C11 amended: the real tokens of every record are one leading marker, the
\* kept tokens of A and one separator, all with segment id 0; the kept
\* tokens of B and one trailing separator, all with segment id 1, follow
\* exactly when at least one token of B is kept, which takes a text_b with a
\* token and is certain from L = 5 on; a record whose text_b is absent,
\* blank, or truncated to nothing ends at the first separator.
C11_SectionBIfKept ==
    asm_pc = "returned" =>
        /\ LayoutOfA
        /\ HasSectionB => LayoutOfB /\ PairInput
        /\ ~HasSectionB => NumReal = FirstSep
        /\ ~PairInput => ~HasSectionB
        /\ PairInput /\ max_seq_length >= 5 => HasSectionB

\* a record came back for a pair input of which both texts were truncated
\* and tokens of both were kept
C11_Witness ==
    /\ asm_pc = "returned"
    /\ permute_ngrams = None
    /\ WordsA = 3 /\ WordsB = 3
    /\ max_seq_length = 6
    /\ HasSectionB
    /\ KeptA = TokensOf(2) /\ KeptB = TokensOf(1)
    /\ Ret.segment_ids = <<0, 0, 0, 0, 1, 1>>

(***************************************************************************)
(* Failures of the conversion (Spec)                                       *)
(***************************************************************************)
\* the assembly of example e fails (with the widths of ConvWidths, whether
\* it does is the same in every state of the generator)
Fails(e) ==
    construct_features(e, max_seq_length, LabelMap(label_list), predict,
                       permute_ngrams, seed).st # "ok"

\* the exception raised in the caller holds the guid g
CarriesId(g) == conv_exc # None /\ conv_exc[1].arg = Some(g)

\* C12: if the assembly of some example fails, the conversion aborts: it
\* returns no feature list, so a list returned holds a record of every
\* example and none failed; and the exception raised in the caller carries
\* the id of an example whose assembly failed.
C12_AbortsWithExampleId ==
    /\ conv_pc = "returned" =>
           /\ \A k \in 1..Len(examples) : ~Fails(examples[k])
           /\ Len(features) = Len(examples)
    /\ (\E k \in 1..Len(examples) : Fails(examples[k])) => conv_pc # "returned"
    /\ conv_pc = "raised" =>
           \E k \in 1..Len(examples) :
               Fails(examples[k]) /\ CarriesId(examples[k].guid)

(***************************************************************************)
(* The two paired-line readers (SpecReader)                                *)
(***************************************************************************)
\* what the sequential reader gives for the same two files
Sequential == _create_examples(data_file, label_file)

\* C13 as stated: the list the parallel reader returns is the list the
\* sequential reader gives for the same files: as many examples, in line
\* order, with the same id, text_a and label at every position.
C13_SameAsSequential ==
    rd_pc = "returned" =>
        /\ Len(rd_examples) = Len(Sequential)
        /\ \A k \in 1..Len(rd_examples) :
               /\ rd_examples[k].guid = Sequential[k].guid
               /\ rd_examples[k].text_a = Sequential[k].text_a
               /\ rd_examples[k].label = Sequential[k].label

\* C13 amended: the list the parallel reader returns has as many examples
\* as the sequential reader's, in line order, with the same text_a and label
\* and no text_b at every position; the ids differ: for the line numbered i
\* from 0 the sequential id is str(i) and the parallel one is set_type, '-'
\* and str(i).
C13_SameButGuid ==
    rd_pc = "returned" =>
        /\ Len(rd_examples) = Len(Sequential)
        /\ Len(rd_examples) = Min(Len(data_file), Len(label_file))
        /\ \A k \in 1..Len(rd_examples) :
               /\ rd_examples[k].text_a = Sequential[k].text_a
               /\ rd_examples[k].text_a = <<LETTER + k>>
               /\ rd_examples[k].label = Sequential[k].label
               /\ rd_examples[k].text_b = None /\ Sequential[k].text_b = None
               /\ Sequential[k].guid = Str(k - 1)
               /\ rd_examples[k].guid = set_type \o <<DASH>> \o Str(k - 1)
               /\ rd_examples[k].guid # Sequential[k].guid

\* the parallel reader returned the examples of files of five and four
\* lines after a later task had finished before an earlier one
C13_Witness ==
    /\ rd_pc = "returned"
    /\ rd_overtaken
    /\ Len(data_file) = 5 /\ Len(label_file) = 4
    /\ Len(rd_examples) = 4
    /\ rd_examples[4].guid = S_train \o <<DASH, ZERO + 3>>

(***************************************************************************)
(* The streaming-XML source (SpecXml)                                      *)
(***************************************************************************)
\* get_dev_examples found a .xml file and returned what _create_examples gave
ReturnedExamples == xml_pc = "returned" /\ HasXml(listing)

\* one example per article, in document order, without label and text_b
OnePerArticle ==
    /\ xml_ret = Some(x_examples)
    /\ Len(x_examples) = Len(corpus)
    /\ \A k \in 1..Len(x_examples) :
           x_examples[k].label = None /\ x_examples[k].text_b = None

\* C14 as stated: the source returns exactly one example per article of the
\* corpus, in document order, each without label and text_b and with the
\* article's id attribute as its id.
C14_IdIsArticleId ==
    ReturnedExamples =>
        /\ OnePerArticle
        /\ \A k \in 1..Len(x_examples) : Some(x_examples[k].guid) = corpus[k].id

\* C14 amended: the source returns exactly one example per article of the
\* corpus, in document order, each without label and text_b; the id of the
\* example is "inference-" followed by the article's id attribute, and
\* "inference-None" for an article without that attribute.
C14_IdIsPrefixedArticleId ==
    ReturnedExamples =>
        /\ OnePerArticle
        /\ \A k \in 1..Len(x_examples) :
               /\ corpus[k].id # None =>
                      x_examples[k].guid = S_inference \o <<DASH>> \o corpus[k].id[1]
               /\ corpus[k].id = None =>
                      x_examples[k].guid = S_inference \o <<DASH>> \o S_None
               /\ Some(x_examples[k].guid) # corpus[k].id

\* the source returned the three examples of a corpus of three articles
C14_Witness ==
    /\ ReturnedExamples
    /\ corpus = <<A7, A8, A7>>
    /\ Len(x_examples) = 3
    /\ x_examples[1].guid = S_inference \o <<DASH, ZERO + 7>>
    /\ x_examples[2].guid = S_inference \o <<DASH, ZERO + 8>>
    /\ x_examples[3].guid = S_inference \o <<DASH, ZERO + 7>>

\* C15: when the directory holds no file whose name ends in ".xml", the
\* call of get_dev_examples ends with a not-found error raised to the
\* caller; it never returns without an example sequence.
C15_NoXmlRaisesNotFound ==
    /\ xml_pc = "returned" => xml_ret # None
    /\ dir_exists /\ ~HasXml(listing) /\ xml_pc \notin {"idle", "called"} =>
           xml_pc = "raised" /\ xml_exc = Some("FileNotFoundError")

\* the elements yielded and not cleared
Unreleased == {k \in 1..Len(elems) : yields[k] > 0 /\ ~elems[k].cleared}

\* C16: each article element is yielded exactly once; an element is cleared
\* only after the loop body of _create_examples is through with it, and
\* before the next element is yielded; the body reads id and text of an
\* element before it is cleared; and at most one element is yielded and not
\* yet cleared at any time.
C16_ClearedAfterUseBeforeNext ==
    /\ \A k \in 1..Len(yields) : yields[k] <= 1
    /\ \A k \in 1..Len(elems) :
           /\ elems[k].cleared => k \in consumed /\ yields[k] = 1
           /\ k > 1 /\ yields[k] > 0 => elems[k - 1].cleared
           /\ k \in consumed =>
                  /\ x_examples[k].guid = OfficialGuid(S_inference, corpus[k].id)
                  /\ x_examples[k].text_a =
                         Collapse(Lower(Unescape(Concat(corpus[k].frags))))
    /\ ~read_cleared
    /\ xml_pc # "raised" \/ ~HasXml(listing)
    /\ Cardinality(Unreleased) <= 1
    /\ ReturnedExamples =>
           /\ \A k \in 1..Len(elems) : yields[k] = 1 /\ elems[k].cleared
           /\ Len(elems) = Len(corpus)

\* the body is through with the second of three elements, which is not
\* cleared yet, while the first is cleared and the third not yet yielded
C16_Witness ==
    /\ xml_pc = "next"
    /\ Len(elems) = 3
    /\ gen_cur = 2
    /\ consumed = {1, 2}
    /\ elems[1].cleared /\ ~elems[2].cleared
    /\ yields = <<1, 1, 0>>
    /\ Unreleased = {2}

(***************************************************************************)
(* Loading of the cached-split source (SpecSplit)                          *)
(***************************************************************************)
\* C17: over any sequence of get_train_examples / get_dev_examples calls on
\* one processor, _create_examples runs at most once, in the first call;
\* every later call is answered from self.examples, which stays what the
\* first call loaded, also when that is the empty list.
C17_LoadedAtMostOnce ==
    /\ loads <= 1
    /\ ncalls = 0 => loads = 0 /\ self_examples = None
    /\ ncalls >= 1 => loads = 1 /\ self_examples = Some(AllLoaded)
    /\ ncalls >= 1 /\ last_call = "dev" => split_ret = DevSlice(AllLoaded)

\* three calls were made on a processor whose files gave no example
C17_Witness ==
    /\ ncalls = 3
    /\ data_file = <<>> /\ Len(label_file) = 2
    /\ self_examples = Some(<<>>)
    /\ loads = 1
    /\ last_call = "dev"

(***************************************************************************)
(* Termination of the permutation (SpecPerm)                               *)
(***************************************************************************)
\* C18: for every width that is not None, 0 and negative widths included,
\* every pass of the chunking loop advances i, by one at least, so that
\* after at most len(tokens) passes i is past the end of the list and the
\* loop is left.
C18_LoopAdvances ==
    perm_pc = "loop" =>
        /\ i >= Len(ngrams)
        /\ Len(ngrams) <= num_tokens

(***************************************************************************)
(* Segment B after truncation (SpecAssemble)                               *)
(***************************************************************************)
\* the record has a segment-B section of at least one token, with segment id
\* 1 up to and including the trailing separator, and as many real tokens as
\* the texts have, cut to the budget L - 3, plus the three markers
SectionBKept ==
    /\ HasSectionB
    /\ LayoutOfB
    /\ Len(KeptB) >= 1
    /\ NumReal = Len(KeptA) + Len(KeptB) + 3
    /\ Len(KeptA) + Len(KeptB) = Min(WordsA + WordsB, max_seq_length - 3)

\* C19 as stated: whenever text_b has at least one token and L >= 4, the
\* truncation does not empty segment B: the record holds at least one token
\* of B followed by the trailing separator, all with segment id 1, and its
\* real length is len(A') + len(B') + 3.
C19_SectionBFromL4 ==
    asm_pc = "returned" /\ PairInput /\ max_seq_length >= 4 => SectionBKept

\* C19 amended: the same whenever text_b has at least one token and L >= 5.
\* With L = 4 the budget is one token: segment B keeps its token only if
\* text_a has none, and loses it otherwise (one token each is a tie, which
\* removes from B); with L = 3 both segments are emptied.  A record without
\* a token of B has no segment-B section and no trailing separator.
C19_SectionBFromL5 ==
    asm_pc = "returned" /\ PairInput =>
        /\ max_seq_length >= 3
        /\ LayoutOfA
        /\ max_seq_length >= 5 => SectionBKept
        /\ max_seq_length = 4 /\ WordsA = 0 => SectionBKept
        /\ max_seq_length = 4 /\ WordsA > 0 =>
               ~HasSectionB /\ Len(KeptA) = 1 /\ NumReal = 3
        /\ max_seq_length = 3 => ~HasSectionB /\ KeptA = <<>> /\ NumReal = 2

\* a record came back with L = 5 for a text_a of three tokens and a text_b
\* of one, which the truncation left alone
C19_Witness ==
    /\ asm_pc = "returned"
    /\ max_seq_length = 5
    /\ WordsA = 3 /\ WordsB = 1
    /\ Len(KeptA) = 1 /\ Len(KeptB) = 1
    /\ NumReal = 5
    /\ Ret.segment_ids = <<0, 0, 0, 1, 1>>

====
